---- MODULE Spec2Model ----
(***************************************************************************)
(* Warehouse loader of src/tools/etl/load_by_date.py.                      *)
(*                                                                         *)
(* Three models share this module: Spec, SpecBatch (with SpecBatchLive,    *)
(* the same run under the fairness of a process that keeps executing) and  *)
(* SpecDim.                                                                *)
(*   Spec       the ingestion engine: upsert_ar and upsert_csl applied to  *)
(*              parsed documents against the warehouse tables.             *)
(*   SpecBatch  the batch run of main(): the connection, the date folders  *)
(*              of the day or range asked for, their files processed one   *)
(*              after the other inside one open transaction, the ledger,   *)
(*              the periodic and the final commit, the summary, the exit   *)
(*              status.                                                    *)
(*   SpecDim    dimension resolution: _upsert_scalar_dim with its caches   *)
(*              behind ensure_country and ensure_company, in a process     *)
(*              that may be restarted, next to another loading session.    *)
(*                                                                         *)
(* Tables kept: DimJob, FactAccountsReceivableTransaction, FactShipment,   *)
(* FactSubShipment and the child tables FactException, FactEventDate,      *)
(* FactChargeLine (AR header), FactAdditionalReference (AR header),        *)
(* FactTransportLeg (shipment, sub-shipment) and FactMilestone             *)
(* (sub-shipment). A header row keeps its business key and one attribute.  *)
(* LoadedBy and LoadedByCSL are history fields, not columns.               *)
(***************************************************************************)
EXTENDS Integers, Sequences, FiniteSets, Bags, TLC

\* Number of documents ingested in one behaviour of Spec.
MaxFiles == 3

\* Largest number of files one run of main() finds.
MaxQueue == 3

\* Statements one file's upsert executes before the ledger insert.
StatementsPerFile == 2

\* Largest COMMIT_EVERY tried besides the default.
MaxCommitEvery == 2

\* Longest date range one run of main() is asked for, in days.
MaxDates == 2
MaxCalls == 3

\* COMMIT_EVERY when the environment does not set it.
DefaultCommitEvery == 5

\* Python None / SQL NULL, for a string.
Absent == "absent"

\* A surrogate key that is missing: None, falsy like 0 (IDENTITY starts at 1).
NoKey == 0

\* A document without an embedded shipment.
NoShipment == [ShipmentJob |-> Absent]

\* The three nullable parent columns of a child table.
ParentAR == "FactAccountsReceivableTransactionKey"
ParentShipment == "FactShipmentKey"
ParentSub == "FactSubShipmentKey"

\* Child tables.
TException == "FactException"
TEventDate == "FactEventDate"
TChargeLine == "FactChargeLine"
TAdditionalReference == "FactAdditionalReference"
TTransportLeg == "FactTransportLeg"
TMilestone == "FactMilestone"
TContainer == "FactContainer"

VARIABLES
    db,        \* the warehouse tables as the open transaction sees them
    pre,       \* db as it was before the most recent ingestion
    last,      \* the most recent ingestion: [family, doc]
    prev,      \* the ingestion before it
    nfiles,    \* documents ingested so far
    fkMilestone, \* whether FactMilestone.FactSubShipmentKey is an enforced foreign key
    \* --- main() ---
    commit_every, \* COMMIT_EVERY as read from the environment
    nqueue,       \* number of files the run finds in its date folders
    cur_file,     \* index of the file being processed (0 before the first)
    pc,           \* "start" | "dates" | "loop" | "upsert" | "done" | "crashed"
    args,         \* the command line: [has_range, date, from_date, to_date]
    tree,         \* XML_ROOT: day -> [exists, files] of its date folder
    date_idx,     \* position in the list of dates (0 before the first)
    queue,        \* files of the current date folder still to process
    log,          \* <<day, file name>> of every file begun, in order
    ledger,       \* Dwh2.FactFileIngestion as the run's transaction sees it
    summary,      \* whether the final run summary has been printed
    nstmt,        \* statements the current file's upsert has executed
    txn,          \* writes of the open transaction: <<file, statement>>
    durable,      \* committed writes
    last_commit,  \* files processed since the last commit
    processed,    \* files counted as processed
    status,       \* exit status of main()
    \* --- dimension resolution ---
    dims,             \* the dimension tables: rows and identity counters
    _DIM_KEY_CACHE,   \* (table, code) -> surrogate key, NoKey when not cached
    _DIM_ATTR_CACHE,  \* (table, code) -> attribute signature last written
    call,             \* the most recent resolution and what it did
    prevCall,         \* the resolution before it, in the same process
    ncalls,           \* resolutions made so far
    assigned          \* (table, code) -> the first surrogate key returned

varsEngine == <<db, pre, last, prev, nfiles, fkMilestone>>
varsBatch == <<commit_every, nqueue, cur_file, pc, nstmt, txn, durable,
               last_commit, processed, status,
               args, tree, date_idx, queue, log, ledger, summary>>
varsDim == <<dims, _DIM_KEY_CACHE, _DIM_ATTR_CACHE, call, prevCall, ncalls, assigned>>
vars == <<varsEngine, varsBatch, varsDim>>

NoIngestion == [family |-> Absent, doc |-> [Number |-> Absent]]

EmptyDb ==
    [ DimJob |-> {},
      FactAccountsReceivableTransaction |-> {},
      FactShipment |-> {},
      FactSubShipment |-> {},
      Child |-> EmptyBag,
      identity |-> [t \in {"DimJob", "FactAccountsReceivableTransaction",
                           "FactShipment", "FactSubShipment"} |-> 0] ]

----------------------------------------------------------------------------
\* Generic table helpers.

\* A child row: table, the parent column that is set, its value, the Source
\* column (Absent for a table without one), the family whose upsert wrote the
\* row, and the payload columns.
Row(tbl, pcol, pkey, src, by, val) ==
    [Table |-> tbl, ParentCol |-> pcol, ParentKey |-> pkey,
     Source |-> src, LoadedBy |-> by, Val |-> val]

\* INSERT of one row.
InsertRow(child, r) == child (+) SetToBag({r})

\* executemany INSERT of a list of rows.
RECURSIVE InsertRows(_, _)
InsertRows(child, rows) ==
    IF rows = <<>> THEN child
    ELSE InsertRows(InsertRow(child, Head(rows)), Tail(rows))

\* DELETE ... WHERE <the rows in doomed>.
DeleteRows(child, doomed) ==
    [r \in (BagToSet(child) \ doomed) |-> child[r]]

\* Rows of one table under one parent.
RowsOf(child, tbl, pcol, pkey) ==
    {r \in BagToSet(child) : r.Table = tbl /\ r.ParentCol = pcol /\ r.ParentKey = pkey}

\* IDENTITY column: the next key of a table.
NextIdentity(d, tbl) == d.identity[tbl] + 1

\* Keep the first occurrence of each key of a list.
FirstOccurrences(keys, s) ==
    LET keep == {i \in 1..Len(s) : \A j \in 1..(i - 1) : keys[j] # keys[i]}
    IN  [k \in 1..Cardinality(keep) |->
            s[CHOOSE i \in keep : Cardinality({j \in keep : j < i}) = k - 1]]

----------------------------------------------------------------------------
\* ensure_job: DimJob is looked up by (JobType, JobKey) and inserted when missing.

JobDimKeyOf(d, jobType, jobKey) ==
    LET hit == {j \in d.DimJob : j.JobType = jobType /\ j.JobKey = jobKey}
    IN  IF hit = {} THEN NoKey ELSE (CHOOSE j \in hit : TRUE).JobDimKey

ensure_job(d, jobType, jobKey) ==
    IF jobType = Absent \/ jobKey = Absent THEN d
    ELSE IF JobDimKeyOf(d, jobType, jobKey) # NoKey THEN d
    ELSE [d EXCEPT !.DimJob = @ \cup {[JobDimKey |-> NextIdentity(d, "DimJob"),
                                       JobType |-> jobType, JobKey |-> jobKey]},
                   !.identity["DimJob"] = @ + 1]

----------------------------------------------------------------------------
\* Header of a family-A document: FactAccountsReceivableTransaction by Number.

\* SELECT ... WHERE [Number] = ? (a NULL parameter matches no row).
ArHeaderKey(d, number) ==
    LET hit == {h \in d.FactAccountsReceivableTransaction :
                    number # Absent /\ h.Number = number}
    IN  IF hit = {} THEN NoKey ELSE (CHOOSE h \in hit : TRUE).Key

InsertArHeader(d, fact) ==
    [d EXCEPT !.FactAccountsReceivableTransaction =
                  @ \cup {[Key |-> NextIdentity(d, "FactAccountsReceivableTransaction"),
                           Number |-> fact.Number, LocalTotal |-> fact.LocalTotal]},
              !.identity["FactAccountsReceivableTransaction"] = @ + 1]

\* Variant that inserts without looking the Number up first.
UpsertArHeaderNoLookup(d, fact) == InsertArHeader(d, fact)

\* Variant that leaves a row found by Number as it is.
UpsertArHeaderKeepsRow(d, fact) ==
    IF ArHeaderKey(d, fact.Number) # NoKey THEN d ELSE InsertArHeader(d, fact)

\* SELECT by Number; UPDATE the row found, else INSERT.
UpsertArHeader(d, fact) ==
    IF ArHeaderKey(d, fact.Number) # NoKey
    THEN [d EXCEPT !.FactAccountsReceivableTransaction =
            {IF h.Number = fact.Number
                THEN [h EXCEPT !.LocalTotal = fact.LocalTotal] ELSE h : h \in @}]
    ELSE InsertArHeader(d, fact)

----------------------------------------------------------------------------
\* Child collections of a family-A document (parent = the AR header row).

\* Exceptions: when the list is not empty, DELETE (AR key, Source = 'AR')
\* and INSERT every row of the list.
ArExceptions(d, factKey, fact) ==
    IF factKey # NoKey /\ fact.Exceptions # <<>>
    THEN LET doomed == {r \in RowsOf(d.Child, TException, ParentAR, factKey) : r.Source = "AR"}
             rows == [i \in 1..Len(fact.Exceptions) |->
                        Row(TException, ParentAR, factKey, "AR", "AR", fact.Exceptions[i])]
         IN  [d EXCEPT !.Child = InsertRows(DeleteRows(@, doomed), rows)]
    ELSE d

\* Key of the intra-level de-duplication of dates.
DateDedupKey(r) ==
    <<IF r.DateTypeCode = Absent THEN "" ELSE r.DateTypeCode, r.DateKey, r.Time>>

\* seen = set(); a row is kept when its key was not seen before.
DedupDates(s) == FirstOccurrences([i \in DOMAIN s |-> DateDedupKey(s[i])], s)

\* DateCollection: when the list is not empty, de-duplicate (first occurrence
\* kept), DELETE (AR key, Source = 'AR') and INSERT.
ArDateCollection(d, factKey, fact) ==
    IF factKey # NoKey /\ fact.DateCollection # <<>>
    THEN LET kept == DedupDates(fact.DateCollection)
             doomed == {r \in RowsOf(d.Child, TEventDate, ParentAR, factKey) : r.Source = "AR"}
             rows == [i \in 1..Len(kept) |->
                        Row(TEventDate, ParentAR, factKey, "AR", "AR", kept[i])]
         IN  [d EXCEPT !.Child = InsertRows(DeleteRows(@, doomed), rows)]
    ELSE d

\* ISNULL(x, '').
IsNull(x) == IF x = Absent THEN "" ELSE x

\* ChargeLines: each row is inserted IF NOT EXISTS a row of the same AR key,
\* DisplaySequence and ISNULL(ChargeCode, ''); nothing is deleted.
RECURSIVE InsertChargeLinesIfNotExists(_, _, _)
InsertChargeLinesIfNotExists(child, factKey, lines) ==
    IF lines = <<>> THEN child
    ELSE LET cl == Head(lines)
             exists == \E r \in RowsOf(child, TChargeLine, ParentAR, factKey) :
                          /\ r.Val.DisplaySequence = cl.DisplaySequence
                          /\ IsNull(r.Val.ChargeCode) = IsNull(cl.ChargeCode)
             child2 == IF exists THEN child
                       ELSE InsertRow(child, Row(TChargeLine, ParentAR, factKey, "AR", "AR", cl))
         IN  InsertChargeLinesIfNotExists(child2, factKey, Tail(lines))

ArChargeLines(d, factKey, fact) ==
    IF factKey # NoKey /\ fact.ChargeLines # <<>>
    THEN [d EXCEPT !.Child = InsertChargeLinesIfNotExists(@, factKey, fact.ChargeLines)]
    ELSE d

\* AdditionalReferences: every row of the list is inserted; nothing is
\* deleted and nothing is looked up first.
ArAdditionalReferences(d, factKey, fact) ==
    IF factKey # NoKey /\ fact.AdditionalReferences # <<>>
    THEN LET rows == [i \in 1..Len(fact.AdditionalReferences) |->
                        Row(TAdditionalReference, ParentAR, factKey, "AR", "AR",
                            fact.AdditionalReferences[i])]
         IN  [d EXCEPT !.Child = InsertRows(@, rows)]
    ELSE d

----------------------------------------------------------------------------
\* Transport legs: the normalised key of the intra-batch de-duplication.

\* str.strip() on the strings the documents carry.
_norm(s) ==
    CASE s = Absent -> ""
      [] s = " 9811000" -> "9811000"
      [] OTHER -> s

\* str.upper() on the strings the documents carry.
Upper(s) ==
    CASE s = "mia" -> "MIA"
      [] s = "bog" -> "BOG"
      [] s = "Ever Given" -> "EVER GIVEN"
      [] s = "sea" -> "SEA"
      [] OTHER -> s

\* str.lower() on the transport modes the documents carry.
Lower(s) ==
    CASE s = "SEA" -> "sea"
      [] s = "Sea" -> "sea"
      [] OTHER -> s

\* The six timestamps of a leg, stripped.
LegTimes(leg) ==
    <<_norm(leg.ActualArrival), _norm(leg.ActualDeparture),
      _norm(leg.EstimatedArrival), _norm(leg.EstimatedDeparture),
      _norm(leg.ScheduledArrival), _norm(leg.ScheduledDeparture)>>

\* vessel = _norm(VesselLloydsIMO) or _norm(VesselName).upper()
LegVessel(leg) ==
    IF _norm(leg.VesselLloydsIMO) # "" THEN _norm(leg.VesselLloydsIMO)
    ELSE Upper(_norm(leg.VesselName))

_leg_key(leg) ==
    <<leg.Order,
      Upper(_norm(leg.PortOfLoading)),
      Upper(_norm(leg.PortOfDischarge)),
      Lower(_norm(leg.TransportMode)),
      LegVessel(leg),
      Upper(_norm(leg.VoyageFlightNo))>> \o LegTimes(leg)

\* Rows of a leg list under one parent, after the de-duplication.
LegRows(pcol, pkey, by, legs) ==
    LET kept == FirstOccurrences([i \in DOMAIN legs |-> _leg_key(legs[i])], legs)
    IN  [i \in 1..Len(kept) |-> Row(TTransportLeg, pcol, pkey, Absent, by, kept[i])]

\* Family A: when the document lists legs for a parent, DELETE every leg of
\* that parent (the table has no Source column) and INSERT the list.
ArReplaceLegs(d, pcol, pkey, legs) ==
    IF pkey # NoKey /\ legs # <<>>
    THEN [d EXCEPT !.Child =
            InsertRows(DeleteRows(@, RowsOf(@, TTransportLeg, pcol, pkey)),
                       LegRows(pcol, pkey, "AR", legs))]
    ELSE d

\* Family A dates under a shipment or a sub-shipment: DELETE (parent,
\* Source = 'AR') and INSERT the rows given (already de-duplicated).
ArReplaceDates(d, pcol, pkey, dates) ==
    LET doomed == {r \in RowsOf(d.Child, TEventDate, pcol, pkey) : r.Source = "AR"}
        rows == [i \in 1..Len(dates) |-> Row(TEventDate, pcol, pkey, "AR", "AR", dates[i])]
    IN  [d EXCEPT !.Child = InsertRows(DeleteRows(@, doomed), rows)]

----------------------------------------------------------------------------
\* The shipment embedded in a family-A document.

\* SELECT FactShipmentKey FROM FactShipment WHERE ShipmentJobKey = ?
ShipmentKeyByJob(d, jobKey) ==
    LET hit == {h \in d.FactShipment : jobKey # NoKey /\ h.ShipmentJobKey = jobKey}
    IN  IF hit = {} THEN NoKey ELSE (CHOOSE h \in hit : TRUE).Key

\* SELECT COUNT(1) FROM FactSubShipment WHERE FactShipmentKey = ?
SubCount(d, shipKey) ==
    Cardinality({s \in d.FactSubShipment : s.FactShipmentKey = shipKey})

\* Keys of the dates listed under the document's sub-shipments.
SubLevelDateKeys(subs) ==
    UNION {{DateDedupKey(subs[i].DateCollection[j]) :
                j \in 1..Len(subs[i].DateCollection)} : i \in 1..Len(subs)}

\* Shipment-level dates of a family-A document: the embedded shipment's
\* dates followed by the document's header dates.
ArShipmentDatesMerged(fact) ==
    fact.ShipmentFromAR.DateCollection \o fact.DateCollection

\* ... without those also present at sub-shipment level and without
\* intra-level duplicates.
ArShipmentDatesKept(fact) ==
    LET subKeys == SubLevelDateKeys(fact.ShipmentFromAR.SubShipments)
        notSub == SelectSeq(ArShipmentDatesMerged(fact),
                            LAMBDA x : DateDedupKey(x) \notin subKeys)
    IN  DedupDates(notSub)

ArShipmentDates(d, shipKey, fact) ==
    IF shipKey # NoKey /\ ArShipmentDatesMerged(fact) # <<>>
    THEN ArReplaceDates(d, ParentShipment, shipKey, ArShipmentDatesKept(fact))
    ELSE d

\* INSERT INTO FactSubShipment ...; SELECT SCOPE_IDENTITY(); then the new
\* sub-shipment's dates and legs.
ArInsertSubShipment(d, shipKey, subObj) ==
    LET subKey == NextIdentity(d, "FactSubShipment")
        d1 == [d EXCEPT !.FactSubShipment =
                            @ \cup {[Key |-> subKey, FactShipmentKey |-> shipKey,
                                     WayBillNumber |-> subObj.WayBillNumber,
                                     LoadedBy |-> "AR"]},
                        !.identity["FactSubShipment"] = @ + 1]
        d2 == IF subObj.DateCollection # <<>>
              THEN ArReplaceDates(d1, ParentSub, subKey,
                                  DedupDates(subObj.DateCollection))
              ELSE d1
    IN  ArReplaceLegs(d2, ParentSub, subKey, subObj.TransportLegs)

RECURSIVE ArInsertSubShipments(_, _, _)
ArInsertSubShipments(d, shipKey, subs) ==
    IF subs = <<>> THEN d
    ELSE ArInsertSubShipments(ArInsertSubShipment(d, shipKey, Head(subs)), shipKey, Tail(subs))

\* The shipment does not exist yet: INSERT a minimal FactShipment, then its
\* dates, its legs and the sub-shipments the document lists.
ArCreateShipment(d, jobKey, fact) ==
    LET shf == fact.ShipmentFromAR
        shipKey == NextIdentity(d, "FactShipment")
        d1 == [d EXCEPT !.FactShipment =
                            @ \cup {[Key |-> shipKey, ShipmentJobKey |-> jobKey,
                                     ContainerCount |-> shf.ContainerCount,
                                     LoadedBy |-> "AR", LoadedByCSL |-> FALSE]},
                        !.identity["FactShipment"] = @ + 1]
        d2 == ArShipmentDates(d1, shipKey, fact)
        d3 == ArReplaceLegs(d2, ParentShipment, shipKey, shf.TransportLegsShipment)
    IN  ArInsertSubShipments(d3, shipKey, shf.SubShipments)

\* SELECT FactSubShipmentKey ... WHERE FactShipmentKey = ? AND
\* ISNULL(WayBillNumber, '') = ?  (fetchone: one of the matching rows).
SubKeyByWayBill(d, shipKey, waybill) ==
    LET hit == {s \in d.FactSubShipment :
                    s.FactShipmentKey = shipKey /\ IsNull(s.WayBillNumber) = IsNull(waybill)}
    IN  IF hit = {} THEN NoKey
        ELSE (CHOOSE s \in hit : \A t \in hit : s.Key <= t.Key).Key

\* The shipment has sub-shipments: a sub-shipment of the document that
\* matches an existing row by waybill gets its AR dates and its legs replaced.
ArUpdateSubShipment(d, shipKey, subObj) ==
    LET subKey == SubKeyByWayBill(d, shipKey, subObj.WayBillNumber)
        d1 == IF subObj.DateCollection # <<>>
              THEN ArReplaceDates(d, ParentSub, subKey,
                                  DedupDates(subObj.DateCollection))
              ELSE d
    IN  IF subKey = NoKey THEN d
        ELSE ArReplaceLegs(d1, ParentSub, subKey, subObj.TransportLegs)

RECURSIVE ArUpdateSubShipments(_, _, _)
ArUpdateSubShipments(d, shipKey, subs) ==
    IF subs = <<>> THEN d
    ELSE ArUpdateSubShipments(ArUpdateSubShipment(d, shipKey, Head(subs)), shipKey, Tail(subs))

\* Variant that ignores the number of existing sub-shipments.
ArAddsSubShipmentsAlways(subCount) == subCount >= 0

\* if sub_count == 0: the document's sub-shipments are inserted.
ArAddsSubShipments(subCount) == subCount = 0

\* Variant that also rewrites the header row from the document.
ArExistingShipmentUpdatesHeader(d, shipKey, fact) ==
    [d EXCEPT !.FactShipment =
        {IF s.Key = shipKey
         THEN [s EXCEPT !.ContainerCount = fact.ShipmentFromAR.ContainerCount,
                        !.LoadedBy = "AR"]
         ELSE s : s \in @}]

\* The shipment exists: its AR dates are replaced; when the document lists
\* sub-shipments, either the existing ones are updated (sub_count > 0) or
\* the document's are inserted (sub_count == 0); the shipment's legs are
\* replaced in both cases.
ArExistingShipment(d, shipKey, fact) ==
    LET shf == fact.ShipmentFromAR
        d1 == ArShipmentDates(d, shipKey, fact)
        subCount == SubCount(d1, shipKey)
        d2 == IF subCount > 0
              THEN ArUpdateSubShipments(
                       ArReplaceLegs(d1, ParentShipment, shipKey, shf.TransportLegsShipment),
                       shipKey, shf.SubShipments)
              ELSE d1
        d3 == IF ArAddsSubShipments(subCount)
              THEN ArReplaceLegs(ArInsertSubShipments(d2, shipKey, shf.SubShipments),
                                 ParentShipment, shipKey, shf.TransportLegsShipment)
              ELSE d2
    IN  IF shf.SubShipments # <<>> THEN d3 ELSE d1

ArShipmentFromAR(d, fact) ==
    IF fact.ShipmentFromAR = NoShipment THEN d
    ELSE LET shf == fact.ShipmentFromAR
             d1 == ensure_job(d, "ForwardingShipment", shf.ShipmentJob)
             jobKey == JobDimKeyOf(d1, "ForwardingShipment", shf.ShipmentJob)
             shipKey == ShipmentKeyByJob(d1, jobKey)
         IN  IF jobKey = NoKey THEN d1
             ELSE IF shipKey = NoKey THEN ArCreateShipment(d1, jobKey, fact)
             ELSE ArExistingShipment(d1, shipKey, fact)

\* upsert_ar: the header, the header's child collections, then the
\* embedded shipment.
upsert_ar(d, fact) ==
    LET d1 == UpsertArHeader(d, fact)
        factKey == ArHeaderKey(d1, fact.Number)
        d2 == ArExceptions(d1, factKey, fact)
        d3 == ArDateCollection(d2, factKey, fact)
        d4 == ArChargeLines(d3, factKey, fact)
        d5 == ArAdditionalReferences(d4, factKey, fact)
    IN  ArShipmentFromAR(d5, fact)

----------------------------------------------------------------------------
\* Family B: the canonical shipment document.

\* Header: with a ShipmentJobKey the row is looked up and updated, or
\* inserted; without one a row is always inserted.
UpsertCslHeader(d, jobKey, fact) ==
    IF ShipmentKeyByJob(d, jobKey) # NoKey
    THEN [d EXCEPT !.FactShipment =
            {IF h.Key = ShipmentKeyByJob(d, jobKey)
                THEN [h EXCEPT !.ContainerCount = fact.ContainerCount,
                               !.LoadedByCSL = TRUE]
                ELSE h : h \in @}]
    ELSE [d EXCEPT !.FactShipment =
                       @ \cup {[Key |-> NextIdentity(d, "FactShipment"),
                                ShipmentJobKey |-> jobKey,
                                ContainerCount |-> fact.ContainerCount,
                                LoadedBy |-> "CSL", LoadedByCSL |-> TRUE]},
                   !.identity["FactShipment"] = @ + 1]

\* fact_ship_key after the header upsert: the matched row, or the newest row.
CslShipmentKey(d, dAfter, jobKey) ==
    IF ShipmentKeyByJob(d, jobKey) # NoKey THEN ShipmentKeyByJob(d, jobKey)
    ELSE dAfter.identity["FactShipment"]

\* Shipment-level transport legs: every leg of the list is inserted;
\* nothing is deleted and nothing is de-duplicated.
CslShipmentLegs(d, shipKey, fact) ==
    LET legs == fact.TransportLegsShipment
        rows == [i \in 1..Len(legs) |->
                    Row(TTransportLeg, ParentShipment, shipKey, Absent, "CSL", legs[i])]
    IN  IF shipKey # NoKey /\ legs # <<>>
        THEN [d EXCEPT !.Child = InsertRows(@, rows)]
        ELSE d

\* Child tables cleared before the sub-shipments of a shipment are deleted
\* (of the tables kept here).
CslCascadeTables == {TChargeLine, TContainer, TEventDate, TTransportLeg, TAdditionalReference}

\* existing_subs > 0: DELETE the listed child tables WHERE FactSubShipmentKey
\* IN (the shipment's sub-shipments), then DELETE the sub-shipments. Each
\* statement swallows its own failure; the last one fails as a whole when an
\* enforced foreign key is still referenced.
CslDeleteSubShipments(d, shipKey, fk) ==
    LET subKeys == {s.Key : s \in {t \in d.FactSubShipment : t.FactShipmentKey = shipKey}}
        doomed == {r \in BagToSet(d.Child) :
                      /\ r.ParentCol = ParentSub
                      /\ r.ParentKey \in subKeys
                      /\ r.Table \in CslCascadeTables}
        d1 == [d EXCEPT !.Child = DeleteRows(@, doomed)]
        referenced == \E r \in BagToSet(d1.Child) :
                          r.ParentCol = ParentSub /\ r.ParentKey \in subKeys
    IN  IF fk /\ referenced THEN d1
        ELSE [d1 EXCEPT !.FactSubShipment = {s \in @ : s.FactShipmentKey # shipKey}]

\* Source-tagged collection of family B under a parent: DELETE (parent,
\* Source = 'CSL') and INSERT the list as it is.
CslReplace(d, tbl, pcol, pkey, list) ==
    LET doomed == {r \in RowsOf(d.Child, tbl, pcol, pkey) : r.Source = "CSL"}
        rows == [i \in 1..Len(list) |-> Row(tbl, pcol, pkey, "CSL", "CSL", list[i])]
    IN  IF pkey # NoKey /\ list # <<>>
        THEN [d EXCEPT !.Child = InsertRows(DeleteRows(@, doomed), rows)]
        ELSE d

\* Containers of a sub-shipment, and inside the same `if sub_key and conts2`
\* block its additional references, which are plainly inserted.
CslSubContainers(d, subKey, subObj) ==
    LET d1 == CslReplace(d, TContainer, ParentSub, subKey, subObj.Containers)
        refs == subObj.AdditionalReferences
        rows == [i \in 1..Len(refs) |->
                    Row(TAdditionalReference, ParentSub, subKey, "CSL", "CSL", refs[i])]
    IN  IF subKey # NoKey /\ subObj.Containers # <<>> /\ refs # <<>>
        THEN [d1 EXCEPT !.Child = InsertRows(@, rows)]
        ELSE d1

\* One sub-shipment of the document: INSERT ... OUTPUT INSERTED key, then
\* its milestones, its dates, its legs (legs are plainly inserted), its
\* containers and additional references.
CslInsertSubShipment(d, shipKey, subObj) ==
    LET subKey == NextIdentity(d, "FactSubShipment")
        d1 == [d EXCEPT !.FactSubShipment =
                            @ \cup {[Key |-> subKey, FactShipmentKey |-> shipKey,
                                     WayBillNumber |-> subObj.WayBillNumber,
                                     LoadedBy |-> "CSL"]},
                        !.identity["FactSubShipment"] = @ + 1]
        d2 == CslReplace(d1, TMilestone, ParentSub, subKey, subObj.Milestones)
        d3 == CslReplace(d2, TEventDate, ParentSub, subKey, subObj.DateCollection)
        legs == subObj.TransportLegs
        rows == [i \in 1..Len(legs) |->
                    Row(TTransportLeg, ParentSub, subKey, Absent, "CSL", legs[i])]
    IN  CslSubContainers([d3 EXCEPT !.Child = InsertRows(@, rows)], subKey, subObj)

RECURSIVE CslInsertSubShipments(_, _, _)
CslInsertSubShipments(d, shipKey, subs) ==
    IF subs = <<>> THEN d
    ELSE CslInsertSubShipments(CslInsertSubShipment(d, shipKey, Head(subs)), shipKey, Tail(subs))

\* SubShipmentCollection: only when the document lists at least one
\* sub-shipment are the existing ones replaced.
CslSubShipments(d, shipKey, fact, fk) ==
    IF shipKey # NoKey /\ fact.SubShipments # <<>>
    THEN LET d1 == IF SubCount(d, shipKey) > 0
                   THEN CslDeleteSubShipments(d, shipKey, fk) ELSE d
         IN  CslInsertSubShipments(d1, shipKey, fact.SubShipments)
    ELSE d

\* upsert_csl: the job, the header, the shipment's legs, the sub-shipments
\* with their children, then the shipment's dates.
upsert_csl(d, fact, fk) ==
    LET d1 == ensure_job(d, "ForwardingShipment", fact.ShipmentJob)
        jobKey == JobDimKeyOf(d1, "ForwardingShipment", fact.ShipmentJob)
        d2 == UpsertCslHeader(d1, jobKey, fact)
        shipKey == CslShipmentKey(d1, d2, jobKey)
        d3 == CslShipmentLegs(d2, shipKey, fact)
        d4 == CslSubShipments(d3, shipKey, fact, fk)
    IN  CslReplace(d4, TEventDate, ParentShipment, shipKey, fact.DateCollection)

----------------------------------------------------------------------------
\* Parsed documents the engine is fed with.

DateETD == [DateTypeCode |-> "ETD", DateKey |-> 20240101, Time |-> "08:00", DateTimeText |-> "first"]
DateETDAgain == [DateTypeCode |-> "ETD", DateKey |-> 20240101, Time |-> "08:00", DateTimeText |-> "second"]
DateETA == [DateTypeCode |-> "ETA", DateKey |-> 20240105, Time |-> "17:30", DateTimeText |-> "first"]

\* A parsed TransportLeg with the fields the de-duplication key reads.
Leg(order, pol, pod, name, imo) ==
    [Order |-> order, PortOfLoading |-> pol, PortOfDischarge |-> pod,
     TransportMode |-> "SEA", VesselName |-> name, VesselLloydsIMO |-> imo,
     VoyageFlightNo |-> "012W",
     ActualArrival |-> Absent, ActualDeparture |-> Absent,
     EstimatedArrival |-> "2024-01-05T17:30:00", EstimatedDeparture |-> "2024-01-01T08:00:00",
     ScheduledArrival |-> Absent, ScheduledDeparture |-> Absent]

LegOne == Leg(1, "MIA", "BOG", "EVER", Absent)
LegTwo == Leg(2, "BOG", "CTG", Absent, Absent)
\* One leg told three ways: the vessel by its name, by its name in another
\* casing, and by its name with its registry number.
LegByName == Leg(3, "CTG", "MIA", "EVER GIVEN", Absent)
LegByNameCased == Leg(3, "CTG", "MIA", "Ever Given", Absent)
LegByIMO == Leg(3, "CTG", "MIA", "EVER GIVEN", "9811000")

ChargeFreight == [DisplaySequence |-> 1, ChargeCode |-> "FRT", Amount |-> 100]
ChargeDocs == [DisplaySequence |-> 2, ChargeCode |-> "DOC", Amount |-> 25]

\* Child lists of a family-A header: a set A, a disjoint set B, a list with a
\* repeated date key, and the empty lists.
ArChildLists ==
    { [Exceptions |-> <<"EXC-A">>, DateCollection |-> <<DateETD>>,
       ChargeLines |-> <<ChargeFreight>>, AdditionalReferences |-> <<"REF-A">>, LocalTotal |-> 100],
      [Exceptions |-> <<"EXC-B">>, DateCollection |-> <<DateETA>>,
       ChargeLines |-> <<ChargeDocs>>, AdditionalReferences |-> <<"REF-B">>, LocalTotal |-> 150],
      [Exceptions |-> <<"EXC-A", "EXC-A">>, DateCollection |-> <<DateETD, DateETDAgain>>,
       ChargeLines |-> <<ChargeFreight>>, AdditionalReferences |-> <<>>, LocalTotal |-> 100],
      [Exceptions |-> <<>>, DateCollection |-> <<>>,
       ChargeLines |-> <<>>, AdditionalReferences |-> <<>>, LocalTotal |-> 100] }

NoChildLists ==
    [Exceptions |-> <<>>, DateCollection |-> <<>>,
     ChargeLines |-> <<>>, AdditionalReferences |-> <<>>, LocalTotal |-> 100]

ArDoc(number, lists, shf) ==
    [Number |-> number, LocalTotal |-> lists.LocalTotal,
     Exceptions |-> lists.Exceptions, DateCollection |-> lists.DateCollection,
     ChargeLines |-> lists.ChargeLines,
     AdditionalReferences |-> lists.AdditionalReferences,
     ShipmentFromAR |-> shf]

ArSubShipment ==
    [WayBillNumber |-> "HBL-1", DateCollection |-> <<DateETD>>, TransportLegs |-> <<LegOne>>]

\* Shipments embedded in a family-A document.
ArEmbeddedShipments ==
    { [ShipmentJob |-> job, ContainerCount |-> 1, DateCollection |-> <<DateETA>>,
       TransportLegsShipment |-> legs, SubShipments |-> subs] :
        job \in {"S001"}, legs \in {<<>>, <<LegOne>>}, subs \in {<<>>, <<ArSubShipment>>} }
    \cup
    { [ShipmentJob |-> Absent, ContainerCount |-> 1, DateCollection |-> <<>>,
       TransportLegsShipment |-> <<>>, SubShipments |-> <<ArSubShipment>>] }
    \cup
    { [ShipmentJob |-> "S001", ContainerCount |-> 2, DateCollection |-> <<>>,
       TransportLegsShipment |-> <<>>, SubShipments |-> <<>>],
      [ShipmentJob |-> "S001", ContainerCount |-> 1, DateCollection |-> <<DateETD, DateETA>>,
       TransportLegsShipment |-> <<>>, SubShipments |-> <<ArSubShipment>>] }

\* Embedded shipments whose leg list tells one leg twice.
ArShipmentsWithRepeatedLeg ==
    { [ShipmentJob |-> "S001", ContainerCount |-> 1, DateCollection |-> <<>>,
       TransportLegsShipment |-> legs, SubShipments |-> <<>>] :
        legs \in {<<LegByName, LegByNameCased>>, <<LegByName, LegByIMO>>} }

\* A document without a Number element is parsed with Number = "" (text() of
\* a missing node).
ArDocs ==
    {ArDoc("INV-001", lists, NoShipment) : lists \in ArChildLists}
    \cup {ArDoc(number, NoChildLists, NoShipment) : number \in {"INV-002", ""}}
    \cup {ArDoc("INV-001", NoChildLists, shf) : shf \in ArEmbeddedShipments}
    \cup {ArDoc("INV-001", NoChildLists, shf) : shf \in ArShipmentsWithRepeatedLeg}

CslSubWithMilestone ==
    [WayBillNumber |-> "HBL-1", Milestones |-> <<"DEP">>,
     DateCollection |-> <<DateETD>>, TransportLegs |-> <<LegTwo>>,
     Containers |-> <<>>, AdditionalReferences |-> <<>>]
CslSubBare ==
    [WayBillNumber |-> "HBL-2", Milestones |-> <<>>,
     DateCollection |-> <<>>, TransportLegs |-> <<>>,
     Containers |-> <<>>, AdditionalReferences |-> <<>>]
\* A sub-shipment with a container and an additional reference, and one
\* with an additional reference only.
CslSubWithContainer ==
    [WayBillNumber |-> "HBL-1", Milestones |-> <<>>,
     DateCollection |-> <<>>, TransportLegs |-> <<>>,
     Containers |-> <<"MSKU1234565">>, AdditionalReferences |-> <<"REF-C">>]
CslSubWithReference ==
    [WayBillNumber |-> "HBL-2", Milestones |-> <<>>,
     DateCollection |-> <<>>, TransportLegs |-> <<>>,
     Containers |-> <<>>, AdditionalReferences |-> <<"REF-D">>]

CslDocs ==
    { [ShipmentJob |-> "S001", ContainerCount |-> 1, TransportLegsShipment |-> legs,
       DateCollection |-> dates, SubShipments |-> subs] :
        legs \in {<<>>, <<LegTwo>>}, dates \in {<<DateETA>>},
        subs \in {<<>>, <<CslSubWithMilestone>>, <<CslSubBare>>,
                  <<CslSubWithMilestone, CslSubBare>>} }
    \cup
    { [ShipmentJob |-> Absent, ContainerCount |-> 1, TransportLegsShipment |-> <<>>,
       DateCollection |-> <<>>, SubShipments |-> <<CslSubBare>>] }
    \cup
    { [ShipmentJob |-> "S001", ContainerCount |-> 1,
       TransportLegsShipment |-> <<LegByName, LegByNameCased>>,
       DateCollection |-> <<>>, SubShipments |-> <<>>],
      [ShipmentJob |-> "S001", ContainerCount |-> 1, TransportLegsShipment |-> <<>>,
       DateCollection |-> <<DateETD, DateETDAgain>>, SubShipments |-> <<>>],
      [ShipmentJob |-> "S001", ContainerCount |-> 2, TransportLegsShipment |-> <<>>,
       DateCollection |-> <<>>, SubShipments |-> <<>>],
      [ShipmentJob |-> "S001", ContainerCount |-> 1, TransportLegsShipment |-> <<>>,
       DateCollection |-> <<>>,
       SubShipments |-> <<CslSubWithContainer, CslSubWithReference>>] }

----------------------------------------------------------------------------
\* The ingestion engine.

\* main() has not set its exit status yet.
NoStatus == -1

\* Dimension tables and the natural keys (after normalisation) resolved in them.
DimTables == {"Dwh2.DimCountry", "Dwh2.DimCompany", "Dwh2.DimOrganization"}
DimCodes == {"US", "CO", "ACME", "MAEU"}
CacheKeys == DimTables \X DimCodes

\* No attribute signature cached (dict.get returns None).
NoAttrs == <<Absent, NoKey>>

\* No resolution made yet in this process.
NoCall ==
    [table |-> Absent, code |-> Absent, name |-> Absent, extra |-> NoKey,
     cached_key |-> NoKey, prev |-> NoAttrs,
     path |-> Absent, result |-> NoKey, error |-> Absent,
     updates |-> 0, inserts |-> 0, fallbacks |-> 0, refused |-> FALSE]

EmptyDims ==
    [rows |-> [t \in DimTables |-> {}], identity |-> [t \in DimTables |-> 0]]

\* A fresh process on an empty warehouse: module-level caches are empty.
DimIdle ==
    /\ dims = EmptyDims
    /\ _DIM_KEY_CACHE = [k \in CacheKeys |-> NoKey]
    /\ _DIM_ATTR_CACHE = [k \in CacheKeys |-> NoAttrs]
    /\ call = NoCall
    /\ prevCall = NoCall
    /\ ncalls = 0
    /\ assigned = [k \in CacheKeys |-> NoKey]

\* No command line.
NoArgs == [has_range |-> FALSE, date |-> 0, from_date |-> 0, to_date |-> 0]

BatchIdle ==
    /\ commit_every = 0 /\ nqueue = 0 /\ cur_file = 0 /\ pc = "done" /\ nstmt = 0
    /\ txn = {} /\ durable = {} /\ last_commit = 0 /\ processed = 0 /\ status = NoStatus
    /\ args = NoArgs /\ tree = <<>> /\ date_idx = 0 /\ queue = <<>> /\ log = <<>>
    /\ ledger = {} /\ summary = FALSE

Init ==
    /\ db = EmptyDb
    /\ pre = EmptyDb
    /\ last = NoIngestion
    /\ prev = NoIngestion
    /\ nfiles = 0
    /\ fkMilestone \in BOOLEAN
    /\ BatchIdle
    /\ DimIdle

\* parse_ar + upsert_ar on one family-A file.
LoadAR(fact) ==
    /\ nfiles < MaxFiles
    /\ db' = upsert_ar(db, fact)
    /\ pre' = db
    /\ prev' = last
    /\ last' = [family |-> "AR", doc |-> fact]
    /\ nfiles' = nfiles + 1
    /\ UNCHANGED <<fkMilestone, varsBatch, varsDim>>

\* parse_csl + upsert_csl on one family-B file.
LoadCSL(fact) ==
    /\ nfiles < MaxFiles
    /\ db' = upsert_csl(db, fact, fkMilestone)
    /\ pre' = db
    /\ prev' = last
    /\ last' = [family |-> "CSL", doc |-> fact]
    /\ nfiles' = nfiles + 1
    /\ UNCHANGED <<fkMilestone, varsBatch, varsDim>>

Next ==
    \/ \E fact \in ArDocs : LoadAR(fact)
    \/ \E fact \in CslDocs : LoadCSL(fact)

Spec == Init /\ [][Next]_vars

----------------------------------------------------------------------------
\* main(): the batch run. Every file is parsed and upserted inside the one
\* open transaction of the connection; a write is <<file, statement>>, the
\* ledger insert of a file being its last statement. Days are numbered from 1.

EngineIdle ==
    /\ db = EmptyDb /\ pre = EmptyDb /\ last = NoIngestion /\ prev = NoIngestion
    /\ nfiles = 0 /\ fkMilestone = FALSE

\* File names a date folder may hold.
FileNames == {"AR_1.xml", "AR_2.xml", "CSL_1.xml"}

\* Position of a file name in the order sorted() puts strings in.
NameRank(n) ==
    CASE n = "AR_1.xml" -> 1
      [] n = "AR_2.xml" -> 2
      [] n = "CSL_1.xml" -> 3

\* The pattern a name matches: AR_*.xml or CSL*.xml.
FamilyOf(n) == IF n \in {"AR_1.xml", "AR_2.xml"} THEN "AR" ELSE "CSL"

\* glob(os.path.join(date_folder, pattern)): in no particular order.
glob(files, family) == {n \in files : FamilyOf(n) = family}

RECURSIVE sorted(_)
sorted(S) ==
    IF S = {} THEN <<>>
    ELSE LET m == CHOOSE x \in S : \A y \in S : NameRank(x) <= NameRank(y)
         IN  <<m>> \o sorted(S \ {m})

\* Variant that takes the CSL files of a folder before its AR files.
FilesOfFolderCslFirst(files) == sorted(glob(files, "CSL")) \o sorted(glob(files, "AR"))

\* ar_files, then csl_files, of one date folder.
FilesOfFolder(files) == sorted(glob(files, "AR")) \o sorted(glob(files, "CSL"))

\* A date folder: missing, or holding some files.
NoFolder == [exists |-> FALSE, files |-> {}]
Folders == {NoFolder} \cup {[exists |-> TRUE, files |-> S] : S \in SUBSET FileNames}

\* dates: the day asked for, or every day from --from to --to.
Dates(a) ==
    IF a.has_range
    THEN [i \in 1..(a.to_date - a.from_date + 1) |-> a.from_date + i - 1]
    ELSE <<a.date>>

\* Command lines that pass the argument validation.
CommandLines ==
    {[has_range |-> FALSE, date |-> 1, from_date |-> 0, to_date |-> 0]}
    \cup {[has_range |-> TRUE, date |-> 0, from_date |-> 1, to_date |-> e] : e \in 1..MaxDates}

DaysOf(a) == {Dates(a)[i] : i \in 1..Len(Dates(a))}

\* Files in the folders of the first n days.
RECURSIVE FilesUpTo(_, _)
FilesUpTo(t, n) == IF n = 0 THEN 0 ELSE Cardinality(t[n].files) + FilesUpTo(t, n - 1)

InitBatch ==
    /\ EngineIdle
    /\ DimIdle
    /\ commit_every \in (0..MaxCommitEvery) \cup {DefaultCommitEvery}
    /\ args \in CommandLines
    /\ tree \in [1..MaxDates -> Folders]
    /\ \A d \in (1..MaxDates) \ DaysOf(args) : tree[d] = NoFolder
    /\ nqueue = FilesUpTo(tree, MaxDates)
    /\ nqueue <= MaxQueue
    /\ cur_file = 0
    /\ pc = "start"
    /\ nstmt = 0
    /\ txn = {}
    /\ durable = {}
    /\ last_commit = 0
    /\ processed = 0
    /\ status = NoStatus
    /\ date_idx = 0
    /\ queue = <<>>
    /\ log = <<>>
    /\ ledger = {}
    /\ summary = FALSE

\* What a run is given and never changes.
runInputs == <<commit_every, nqueue, args, tree>>

\* Variant with min() where the code has max().
CommitIntervalMin == IF commit_every < 1 THEN commit_every ELSE 1

\* max(1, COMMIT_EVERY)
CommitInterval == IF commit_every < 1 THEN 1 ELSE commit_every

\* The statement number of a file's ledger insert.
LedgerStatement == StatementsPerFile + 1

\* All the writes one fully processed file makes.
WritesOfFile(f) == {<<f, k>> : k \in 1..LedgerStatement}

\* _parse_file_ingestion for a name without a timestamp: the source from
\* the prefix, the date key from the folder, no time.
_parse_file_ingestion(fname, folder_date) ==
    [Source |-> FamilyOf(fname), FileName |-> fname,
     FileDateKey |-> folder_date, FileTime |-> Absent]

\* Variant that inserts without the IF NOT EXISTS guard.
InsertFileIngestionAlways(l, row) == l \cup {row}

\* IF NOT EXISTS (SELECT 1 ... WHERE FileName=?) INSERT ...
_insert_file_ingestion(l, row) ==
    IF \E r \in l : r.FileName = row.FileName THEN l ELSE l \cup {row}

\* cnxn = connect() with the connection settings present.
Connect ==
    /\ pc = "start"
    /\ pc' = "dates"
    /\ UNCHANGED <<runInputs, cur_file, nstmt, txn, durable, last_commit, processed,
                   status, date_idx, queue, log, ledger, summary>>
    /\ UNCHANGED <<varsEngine, varsDim>>

\* connect() without them: RuntimeError raised before the try statement;
\* the interpreter prints the traceback and exits with status 1.
ConnectFails ==
    /\ pc = "start"
    /\ pc' = "crashed"
    /\ status' = 1
    /\ UNCHANGED <<runInputs, cur_file, nstmt, txn, durable, last_commit, processed,
                   date_idx, queue, log, ledger, summary>>
    /\ UNCHANGED <<varsEngine, varsDim>>

\* for date_str in dates: the folder exists, its files are listed.
EnterFolder ==
    /\ pc = "dates"
    /\ date_idx < Len(Dates(args))
    /\ tree[Dates(args)[date_idx + 1]].exists
    /\ date_idx' = date_idx + 1
    /\ queue' = FilesOfFolder(tree[Dates(args)[date_idx + 1]].files)
    /\ pc' = "loop"
    /\ UNCHANGED <<runInputs, cur_file, nstmt, txn, durable, last_commit, processed,
                   status, log, ledger, summary>>
    /\ UNCHANGED <<varsEngine, varsDim>>

\* ... the folder is missing, range mode: (skip) and continue.
SkipMissingFolder ==
    /\ pc = "dates"
    /\ date_idx < Len(Dates(args))
    /\ ~tree[Dates(args)[date_idx + 1]].exists
    /\ args.has_range
    /\ date_idx' = date_idx + 1
    /\ UNCHANGED <<runInputs, cur_file, pc, nstmt, txn, durable, last_commit, processed,
                   status, queue, log, ledger, summary>>
    /\ UNCHANGED <<varsEngine, varsDim>>

\* for p in ar_files / csl_files: the next file is parsed and its upsert starts.
BeginFile ==
    /\ pc = "loop"
    /\ queue # <<>>
    /\ cur_file' = cur_file + 1
    /\ log' = Append(log, <<Dates(args)[date_idx], Head(queue)>>)
    /\ queue' = Tail(queue)
    /\ nstmt' = 0
    /\ pc' = "upsert"
    /\ UNCHANGED <<runInputs, txn, durable, last_commit, processed, status,
                   date_idx, ledger, summary>>
    /\ UNCHANGED <<varsEngine, varsDim>>

\* Both file loops of the folder are exhausted: back to the loop over dates.
EndFolder ==
    /\ pc = "loop"
    /\ queue = <<>>
    /\ pc' = "dates"
    /\ UNCHANGED <<runInputs, cur_file, nstmt, txn, durable, last_commit, processed,
                   status, date_idx, queue, log, ledger, summary>>
    /\ UNCHANGED <<varsEngine, varsDim>>

\* One statement of upsert_ar / upsert_csl writes to the open transaction.
ExecuteStatement ==
    /\ pc = "upsert"
    /\ nstmt < StatementsPerFile
    /\ nstmt' = nstmt + 1
    /\ txn' = txn \cup {<<cur_file, nstmt + 1>>}
    /\ UNCHANGED <<runInputs, cur_file, pc, durable, last_commit, processed, status,
                   date_idx, queue, log, ledger, summary>>
    /\ UNCHANGED <<varsEngine, varsDim>>

\* The upsert returned: _insert_file_ingestion, last_commit += 1, the
\* commit when the interval is reached, processed += 1.
FinishFile ==
    /\ pc = "upsert"
    /\ nstmt = StatementsPerFile
    /\ ledger' = _insert_file_ingestion(ledger,
                     _parse_file_ingestion(log[Len(log)][2], log[Len(log)][1]))
    /\ LET written == txn \cup {<<cur_file, LedgerStatement>>}
       IN  IF last_commit + 1 >= CommitInterval
           THEN /\ durable' = durable \cup written
                /\ txn' = {}
                /\ last_commit' = 0
           ELSE /\ durable' = durable
                /\ txn' = written
                /\ last_commit' = last_commit + 1
    /\ processed' = processed + 1
    /\ pc' = "loop"
    /\ UNCHANGED <<runInputs, cur_file, nstmt, status, date_idx, queue, log, summary>>
    /\ UNCHANGED <<varsEngine, varsDim>>

\* Variant that closes the connection without the last commit.
FinallyWithoutCommit(st) ==
    /\ status' = st
    /\ durable' = durable
    /\ txn' = {}
    /\ summary' = TRUE
    /\ pc' = "done"
    /\ UNCHANGED <<runInputs, cur_file, nstmt, last_commit, processed,
                   queue, log, ledger>>
    /\ UNCHANGED <<varsEngine, varsDim>>

\* finally: commit when last_commit > 0, close (which rolls back what is
\* still uncommitted), print the summary; then return status.
Finally(st) ==
    /\ status' = st
    /\ durable' = IF last_commit > 0 THEN durable \cup txn ELSE durable
    /\ txn' = {}
    /\ summary' = TRUE
    /\ pc' = "done"
    /\ UNCHANGED <<runInputs, cur_file, nstmt, last_commit, processed,
                   queue, log, ledger>>
    /\ UNCHANGED <<varsEngine, varsDim>>

\* The folder is missing, single-day mode: return 1 from inside the try.
MissingFolder ==
    /\ pc = "dates"
    /\ date_idx < Len(Dates(args))
    /\ ~tree[Dates(args)[date_idx + 1]].exists
    /\ ~args.has_range
    /\ date_idx' = date_idx + 1
    /\ Finally(1)

\* The loops ran to their end: status = 0.
RunToEnd ==
    /\ pc = "dates"
    /\ date_idx = Len(Dates(args))
    /\ UNCHANGED date_idx
    /\ Finally(0)

\* parse or upsert raised: except Exception, status = 1.
RaiseException ==
    /\ pc = "upsert"
    /\ UNCHANGED date_idx
    /\ Finally(1)

\* Ctrl-C at any point of the try: except KeyboardInterrupt, status = 130.
KeyboardInterrupt ==
    /\ pc \in {"dates", "loop", "upsert"}
    /\ UNCHANGED date_idx
    /\ Finally(130)

NextBatch ==
    \/ Connect
    \/ ConnectFails
    \/ EnterFolder
    \/ SkipMissingFolder
    \/ MissingFolder
    \/ BeginFile
    \/ EndFolder
    \/ ExecuteStatement
    \/ FinishFile
    \/ RunToEnd
    \/ RaiseException
    \/ KeyboardInterrupt

SpecBatch == InitBatch /\ [][NextBatch]_vars

\* The same run in a process that keeps executing: some step of main() is
\* taken as long as one is possible.
SpecBatchLive == SpecBatch /\ WF_vars(NextBatch)

----------------------------------------------------------------------------
\* Dimension resolution: _upsert_scalar_dim behind its ensure_* callers.

\* _clean_str: runs of whitespace become one space, then the ends are
\* trimmed; None stays None.
_clean_str(s) ==
    CASE s = " US " -> "US"
      [] s = "  " -> ""
      [] s = "United  States" -> "United States"
      [] OTHER -> s

\* Python's `x or d` on an optional string.
OrElse(x, d) == IF x = Absent \/ x = "" THEN d ELSE x

\* A lookup that never finds the row it is asked for.
SelectNothing(d, table, code) == NoKey

\* Variant of the SELECT without its WHERE clause: the first row's key.
SelectKeyIgnoringCode(d, table, code) ==
    IF d.rows[table] = {} THEN NoKey
    ELSE (CHOOSE r \in d.rows[table] : \A q \in d.rows[table] : r.Key <= q.Key).Key

\* SELECT <key_col> FROM <table> WHERE [<code_col>] = ?
SelectKey(d, table, code) ==
    IF \E r \in d.rows[table] : r.Code = code
    THEN (CHOOSE r \in d.rows[table] : r.Code = code).Key
    ELSE NoKey

\* A variant of the update that writes the row anew under a fresh key.
UpdateNameRekeyed(d, table, code, name) ==
    [d EXCEPT !.rows[table] =
        {IF r.Code = code THEN [r EXCEPT !.Name = name, !.Key = d.identity[table] + 1]
                          ELSE r : r \in @},
              !.identity[table] = @ + 1]

\* UPDATE <table> SET [<name_col>] = ?, UpdatedAt = ... WHERE [<code_col>] = ?
UpdateName(d, table, code, name) ==
    [d EXCEPT !.rows[table] =
        {IF r.Code = code THEN [r EXCEPT !.Name = name] ELSE r : r \in @}]

\* UPDATE <table> SET [CountryKey] = ?, UpdatedAt = ... WHERE [<code_col>] = ?
UpdateExtra(d, table, code, extra) ==
    [d EXCEPT !.rows[table] =
        {IF r.Code = code THEN [r EXCEPT !.CountryKey = extra] ELSE r : r \in @}]

\* INSERT INTO <table> (code, name, extras): the IDENTITY column gives the key.
InsertDim(d, table, code, name, extra) ==
    [d EXCEPT !.rows[table] =
                  @ \cup {[Code |-> code, Name |-> name, CountryKey |-> extra,
                           Key |-> d.identity[table] + 1]},
              !.identity[table] = @ + 1]

\* An INSERT refused by the unique natural key: the identity value it drew
\* is spent.
InsertRefused(d, table) == [d EXCEPT !.identity[table] = @ + 1]

\* The same natural key inserted and committed by another session (a
\* replayed or concurrent load) after this session's SELECT found no row.
OtherSessionInsert(d, table, code, name) == InsertDim(d, table, code, name, NoKey)

\* What a resolution reports: the normalised inputs, the cache entries it
\* found, the statements it issued and what it returned.
CallRecord(table, code, name, extra, cached_key, prev_attrs, path, result, error, updates, inserts) ==
    [table |-> table, code |-> code, name |-> name, extra |-> extra,
     cached_key |-> cached_key, prev |-> prev_attrs,
     path |-> path, result |-> result, error |-> error,
     updates |-> updates, inserts |-> inserts, fallbacks |-> 0, refused |-> FALSE]

\* if not code: return None
UpsertEmptyCode(d, kc, ac, table, name) ==
    [dims |-> d, keys |-> kc, attrs |-> ac,
     out |-> CallRecord(table, "", name, NoKey, NoKey, NoAttrs, "empty", NoKey, Absent, 0, 0)]

\* cached_key is not None: one UPDATE when the signature differs from the
\* cached one, then the cached key is returned.
UpsertCacheHit(d, kc, ac, table, code, name, extra) ==
    LET ck == <<table, code>>
        sig == <<name, extra>>
        changed == ac[ck] # sig
        d1 == UpdateName(d, table, code, name)
        d2 == IF extra # NoKey THEN UpdateExtra(d1, table, code, extra) ELSE d1
    IN  [dims |-> IF changed THEN d2 ELSE d,
         keys |-> kc,
         attrs |-> IF changed THEN [ac EXCEPT ![ck] = sig] ELSE ac,
         out |-> CallRecord(table, code, name, extra, kc[ck], ac[ck], "hit", kc[ck],
                            Absent, IF changed THEN 1 ELSE 0, 0)]

\* No cached key: UPDATE the name, UPDATE the extra columns, SELECT the key;
\* when no row is found INSERT and SELECT again. The INSERT is refused when
\* the natural key exists by then, and the error is raised to the caller.
UpsertCacheMiss(d, kc, ac, table, code, name, extra, race) ==
    LET ck == <<table, code>>
        sig == <<name, extra>>
        d1 == UpdateName(d, table, code, name)
        d2 == IF extra # NoKey THEN UpdateExtra(d1, table, code, extra) ELSE d1
        nupd == IF extra # NoKey THEN 2 ELSE 1
        found == SelectKey(d2, table, code)
        dAtInsert == IF race THEN OtherSessionInsert(d2, table, code, name) ELSE d2
        refused == \E r \in dAtInsert.rows[table] : r.Code = code
        d3 == InsertDim(d2, table, code, name, extra)
        k == SelectKey(d3, table, code)
    IN  IF found # NoKey
        THEN [dims |-> d2, keys |-> [kc EXCEPT ![ck] = found],
              attrs |-> [ac EXCEPT ![ck] = sig],
              out |-> CallRecord(table, code, name, extra, NoKey, ac[ck], "select",
                                 found, Absent, nupd, 0)]
        ELSE IF refused
        THEN [dims |-> InsertRefused(dAtInsert, table), keys |-> kc, attrs |-> ac,
              out |-> [CallRecord(table, code, name, extra, NoKey, ac[ck], "insert",
                                  NoKey, "Exception", nupd, 1) EXCEPT !.refused = TRUE]]
        ELSE [dims |-> d3,
              keys |-> IF k # NoKey THEN [kc EXCEPT ![ck] = k] ELSE kc,
              attrs |-> IF k # NoKey THEN [ac EXCEPT ![ck] = sig] ELSE ac,
              out |-> CallRecord(table, code, name, extra, NoKey, ac[ck], "insert",
                                 k, Absent, nupd, 1)]

\* _upsert_scalar_dim with a name column; extra = NoKey stands for
\* extra_cols = None.
_upsert_scalar_dim(d, kc, ac, table, code0, name0, extra, race) ==
    LET code == OrElse(_clean_str(code0), "")
        name == OrElse(_clean_str(name0), code)
    IN  IF code = "" THEN UpsertEmptyCode(d, kc, ac, table, name)
        ELSE IF kc[<<table, code>>] # NoKey
             THEN UpsertCacheHit(d, kc, ac, table, code, name, extra)
        ELSE UpsertCacheMiss(d, kc, ac, table, code, name, extra, race)

\* A caller without the except clause: what _upsert_scalar_dim raised
\* reaches the pipeline.
NoFallback(r, table, code, name, extra) == r

\* except Exception: IF NOT EXISTS (...) INSERT ...; ELSE UPDATE ...; then
\* SELECT the key. The caches are not touched.
DimFallback(r, table, code, name, extra) ==
    LET d == r.dims
        d1 == IF SelectKey(d, table, code) = NoKey
              THEN InsertDim(d, table, code, name, extra)
              ELSE IF extra # NoKey
                   THEN UpdateExtra(UpdateName(d, table, code, name), table, code, extra)
                   ELSE UpdateName(d, table, code, name)
    IN  [r EXCEPT !.dims = d1,
                  !.out = [@ EXCEPT !.path = "fallback", !.error = Absent,
                                    !.result = SelectKey(d1, table, code),
                                    !.fallbacks = 1]]

\* try: return _upsert_scalar_dim(...) / except Exception: the fallback.
EnsureWithFallback(d, kc, ac, table, code, name, extra, race) ==
    LET r == _upsert_scalar_dim(d, kc, ac, table, code, name, extra, race)
    IN  IF r.out.error # Absent THEN DimFallback(r, table, code, name, extra) ELSE r

ensure_country(d, kc, ac, code0, name0, race) ==
    LET code == OrElse(_clean_str(code0), "")
        name == OrElse(_clean_str(name0), code)
    IN  EnsureWithFallback(d, kc, ac, "Dwh2.DimCountry", code, name, NoKey, race)

\* ensure_company: the country key is looked up, never created, and passed
\* as an extra column only when it was found.
ensure_company(d, kc, ac, code0, name0, country_code0, race) ==
    LET code == OrElse(_clean_str(code0), "")
        name == OrElse(_clean_str(name0), code)
        country_code == OrElse(_clean_str(country_code0), "")
        ckey == IF country_code # "" THEN SelectKey(d, "Dwh2.DimCountry", country_code)
                ELSE NoKey
    IN  EnsureWithFallback(d, kc, ac, "Dwh2.DimCompany", code, name, ckey, race)

\* ensure_organization_min: an organization referenced by a leg or a party,
\* often by its code alone; name = _clean_str(company_name) or code. The
\* country key is looked up and passed as an extra column when found.
ensure_organization_min(d, kc, ac, code0, company_name, country_code, race) ==
    LET code == OrElse(_clean_str(code0), "")
        name == OrElse(_clean_str(company_name), code)
        ckey == IF country_code # Absent /\ country_code # ""
                THEN SelectKey(d, "Dwh2.DimCountry", country_code)
                ELSE NoKey
    IN  EnsureWithFallback(d, kc, ac, "Dwh2.DimOrganization", code, name, ckey, race)

\* Inputs of the resolutions.
CountryCodes == {"US", " US ", "CO", "  "}
CountryNames == {"United  States", "USA"}
CompanyCodes == {"ACME", "  "}
CompanyNames == {"Acme", "Acme Inc"}
CompanyCountryCodes == {"", "US"}
OrganizationCodes == {"MAEU"}
OrganizationNames == {"Maersk", Absent}
OrganizationCountryCodes == {Absent, "US"}

\* A resolution returns: the caches and tables take its effects.
Resolved(r) ==
    LET ck == <<r.out.table, r.out.code>>
    IN  /\ dims' = r.dims
        /\ _DIM_KEY_CACHE' = r.keys
        /\ _DIM_ATTR_CACHE' = r.attrs
        /\ call' = r.out
        /\ prevCall' = call
        /\ ncalls' = ncalls + 1
        /\ assigned' = IF r.out.result # NoKey /\ assigned[ck] = NoKey
                       THEN [assigned EXCEPT ![ck] = r.out.result]
                       ELSE assigned
        /\ UNCHANGED <<varsEngine, varsBatch>>

EnsureCountry(code, name, race) ==
    /\ ncalls < MaxCalls
    /\ Resolved(ensure_country(dims, _DIM_KEY_CACHE, _DIM_ATTR_CACHE, code, name, race))

EnsureCompany(code, name, country_code, race) ==
    /\ ncalls < MaxCalls
    /\ Resolved(ensure_company(dims, _DIM_KEY_CACHE, _DIM_ATTR_CACHE, code, name,
                               country_code, race))

EnsureOrganization(code, company_name, country_code, race) ==
    /\ ncalls < MaxCalls
    /\ Resolved(ensure_organization_min(dims, _DIM_KEY_CACHE, _DIM_ATTR_CACHE, code,
                                        company_name, country_code, race))

\* A later run of the loader: a new process, whose module-level caches
\* start empty, over the same tables.
NewProcess ==
    /\ call # NoCall
    /\ _DIM_KEY_CACHE' = [k \in CacheKeys |-> NoKey]
    /\ _DIM_ATTR_CACHE' = [k \in CacheKeys |-> NoAttrs]
    /\ call' = NoCall
    /\ prevCall' = NoCall
    /\ UNCHANGED <<dims, ncalls, assigned, varsEngine, varsBatch>>

InitDim ==
    /\ EngineIdle
    /\ BatchIdle
    /\ DimIdle

NextDim ==
    \/ \E code \in CountryCodes, name \in CountryNames, race \in BOOLEAN :
           EnsureCountry(code, name, race)
    \/ \E code \in CompanyCodes, name \in CompanyNames,
          country_code \in CompanyCountryCodes, race \in BOOLEAN :
           EnsureCompany(code, name, country_code, race)
    \/ \E code \in OrganizationCodes, company_name \in OrganizationNames,
          country_code \in OrganizationCountryCodes, race \in BOOLEAN :
           EnsureOrganization(code, company_name, country_code, race)
    \/ NewProcess

SpecDim == InitDim /\ [][NextDim]_vars

----------------------------------------------------------------------------
\* Properties of the ingestion engine.

\* Rows of db that pre does not hold.
NewSubShipments == db.FactSubShipment \ pre.FactSubShipment

\* The shipment of pre a family-A document's embedded shipment refers to.
PreShipmentOfLast ==
    ShipmentKeyByJob(pre, JobDimKeyOf(pre, "ForwardingShipment",
                                      last.doc.ShipmentFromAR.ShipmentJob))

\* The shipment of pre a family-B document refers to.
PreShipmentOfCsl ==
    ShipmentKeyByJob(pre, JobDimKeyOf(pre, "ForwardingShipment", last.doc.ShipmentJob))

\* C4: after any sequence of ingestions every non-absent business key has
\* exactly one header row: an ingested key has a row, no key has two, and
\* ingesting a key already present updates its row without adding one.
C4_OneHeaderPerKey ==
    /\ \A h1, h2 \in db.FactAccountsReceivableTransaction :
          (h1.Number # Absent /\ h1.Number = h2.Number) => h1 = h2
    /\ \A s1, s2 \in db.FactShipment :
          (s1.ShipmentJobKey # NoKey /\ s1.ShipmentJobKey = s2.ShipmentJobKey) => s1 = s2
    /\ \A j1, j2 \in db.DimJob :
          (j1.JobType = j2.JobType /\ j1.JobKey = j2.JobKey) => j1 = j2
    /\ (last.family = "AR" /\ last.doc.Number # Absent) =>
          /\ \E h \in db.FactAccountsReceivableTransaction :
                h.Number = last.doc.Number /\ h.LocalTotal = last.doc.LocalTotal
          /\ ArHeaderKey(pre, last.doc.Number) # NoKey =>
                {h.Key : h \in db.FactAccountsReceivableTransaction}
                    = {h.Key : h \in pre.FactAccountsReceivableTransaction}
    /\ (last.family = "CSL" /\ last.doc.ShipmentJob # Absent) =>
          /\ \E h \in db.FactShipment :
                /\ h.LoadedByCSL
                /\ h.ShipmentJobKey =
                      JobDimKeyOf(db, "ForwardingShipment", last.doc.ShipmentJob)
          /\ PreShipmentOfCsl # NoKey =>
                {h.Key : h \in db.FactShipment} = {h.Key : h \in pre.FactShipment}

\* C4 witness: a family-A document whose Number already had a row, with
\* another LocalTotal, has been ingested and the row carries the new value.
C4_Witness ==
    /\ last.family = "AR"
    /\ ArHeaderKey(pre, last.doc.Number) # NoKey
    /\ \E h \in pre.FactAccountsReceivableTransaction :
          h.Number = last.doc.Number /\ h.LocalTotal # last.doc.LocalTotal
    /\ \E h \in db.FactAccountsReceivableTransaction :
          h.Number = last.doc.Number /\ h.LocalTotal = last.doc.LocalTotal

Range(s) == {s[i] : i \in DOMAIN s}

\* The header rows the last document wrote under: its AR header and its
\* shipment (rows whose keys a re-ingestion keeps).
HeadersOfLast ==
    IF last.family = "AR"
    THEN {<<ParentAR, ArHeaderKey(db, last.doc.Number)>>}
         \cup (IF last.doc.ShipmentFromAR = NoShipment THEN {}
               ELSE {<<ParentShipment,
                       ShipmentKeyByJob(db, JobDimKeyOf(db, "ForwardingShipment",
                                            last.doc.ShipmentFromAR.ShipmentJob))>>})
    ELSE {<<ParentShipment,
            ShipmentKeyByJob(db, JobDimKeyOf(db, "ForwardingShipment", last.doc.ShipmentJob))>>}

\* The child rows (with their counts) under those headers.
HeaderChildren(d) ==
    [r \in {x \in BagToSet(d.Child) : <<x.ParentCol, x.ParentKey>> \in HeadersOfLast}
        |-> d.Child[r]]

\* The most recent ingestion repeats the one before it, and the document
\* carries its business key.
Reingested ==
    /\ last.family # Absent
    /\ last = prev
    /\ IF last.family = "AR" THEN last.doc.Number # Absent
       ELSE last.doc.ShipmentJob # Absent

\* C1 as stated: ingesting the same document twice in succession leaves the
\* child rows under the headers it wrote as they were after the first
\* ingestion (same rows, same counts).
C1_ReingestLeavesChildrenUnchanged ==
    Reingested => HeaderChildren(db) = HeaderChildren(pre)

\* Payloads stored for one table under the header row of the last family-A
\* document.
ArStored(tbl) ==
    {r.Val : r \in RowsOf(db.Child, tbl, ParentAR, ArHeaderKey(db, last.doc.Number))}

\* Two family-A documents with the same Number were ingested one after the
\* other.
SameArHeaderTwice ==
    /\ last.family = "AR" /\ prev.family = "AR"
    /\ last.doc.Number # Absent
    /\ last.doc.Number = prev.doc.Number

\* C2 as stated: after a header is ingested with child set A and then with
\* a disjoint, non-empty set B, the collection holds exactly B (charge lines).
C2_SecondSetReplacesFirst ==
    (/\ SameArHeaderTwice
     /\ last.doc.ChargeLines # <<>>
     /\ Range(last.doc.ChargeLines) \cap Range(prev.doc.ChargeLines) = {})
        => ArStored(TChargeLine) = Range(last.doc.ChargeLines)

\* C3 as stated: after a reconcile the rows stored for the (parent, source,
\* kind) are the input rows, and an empty input list leaves the scope empty
\* (exceptions of a family-A header).
C3_StoredEqualsInput ==
    (last.family = "AR" /\ last.doc.Number # Absent)
        => ArStored(TException) = Range(last.doc.Exceptions)

\* The shipment row the last family-B document was loaded into.
ShipmentOfLastCsl ==
    ShipmentKeyByJob(db, JobDimKeyOf(db, "ForwardingShipment", last.doc.ShipmentJob))

\* C5 as stated: once the matching family-B document is loaded, the shipment
\* keeps no sub-shipment row that came from a family-A fallback.
C5_NoResidualFallback ==
    (last.family = "CSL" /\ last.doc.ShipmentJob # Absent)
        => \A s \in db.FactSubShipment :
              s.FactShipmentKey = ShipmentOfLastCsl => s.LoadedBy # "AR"

\* C7 as stated, for the rows family B wrote: a family-A document leaves
\* every sub-shipment row and every child row that a family-B document
\* loaded, transport legs included, as they were.
C7_FamilyALeavesFamilyBRows ==
    last.family = "AR" =>
        /\ \A s \in pre.FactSubShipment :
              s.LoadedBy = "CSL" => s \in db.FactSubShipment
        /\ \A r \in BagToSet(pre.Child) :
              r.LoadedBy = "CSL" => CopiesIn(r, db.Child) = CopiesIn(r, pre.Child)

\* Sub-shipments of the last family-B document stored under its shipment,
\* each with the payloads of its child rows.
StoredSubStructure ==
    {[WayBillNumber |-> s.WayBillNumber,
      Milestones |-> {r.Val : r \in RowsOf(db.Child, TMilestone, ParentSub, s.Key)},
      DateCollection |-> {r.Val : r \in RowsOf(db.Child, TEventDate, ParentSub, s.Key)},
      TransportLegs |-> {r.Val : r \in RowsOf(db.Child, TTransportLeg, ParentSub, s.Key)}] :
        s \in {t \in db.FactSubShipment : t.FactShipmentKey = ShipmentOfLastCsl}}

ListedSubStructure ==
    {[WayBillNumber |-> sub.WayBillNumber,
      Milestones |-> Range(sub.Milestones),
      DateCollection |-> Range(sub.DateCollection),
      TransportLegs |-> Range(sub.TransportLegs)] : sub \in Range(last.doc.SubShipments)}

\* C8 as stated: after a family-B document for a shipment family B had
\* already loaded, the shipment's sub-shipments and their child rows are
\* exactly those the document lists, however many it lists.
C8_LatestFamilyBWins ==
    (/\ last.family = "CSL"
     /\ PreShipmentOfCsl # NoKey
     /\ \E h \in pre.FactShipment : h.Key = PreShipmentOfCsl /\ h.LoadedByCSL)
        => /\ StoredSubStructure = ListedSubStructure
           /\ SubCount(db, ShipmentOfLastCsl) = Len(last.doc.SubShipments)

\* C9 as stated: no child row refers to a sub-shipment that no longer exists.
C9_NoDanglingChildRows ==
    \A r \in BagToSet(db.Child) :
        r.ParentCol = ParentSub => \E s \in db.FactSubShipment : s.Key = r.ParentKey

----------------------------------------------------------------------------
\* Properties of the batch run.

\* C10 as stated: whatever is committed holds every file either whole or
\* not at all, also when a file fails or the run is interrupted part-way.
C10_NoPartialFileDurable ==
    \A f \in 1..nqueue :
        LET kept == durable \cap WritesOfFile(f)
        IN  kept = {} \/ kept = WritesOfFile(f)

\* C11 as stated: when a file of a run over several files raises an
\* exception, the run goes on to the remaining files, so a finished run that
\* met an exception has still begun every file of its queue.
C11_FailureContinuesWithNextFile ==
    (pc = "done" /\ status = 1 /\ nqueue > 1) => cur_file = nqueue

----------------------------------------------------------------------------
\* Properties of the intra-batch de-duplication.

\* The rows the most recent ingestion added, net of what it deleted.
InsertedByLast == db.Child (-) pre.Child

\* The composite de-duplication key of a row of a repeatable child table.
DedupKeyOfRow(r) ==
    IF r.Table = TTransportLeg THEN _leg_key(r.Val) ELSE DateDedupKey(r.Val)

\* C12 as stated: of the rows one ingestion inserts into one child
\* collection of one parent (transport legs, dated events), no two share
\* the composite de-duplication key.
C12_NoTwoSurvivorsShareKey ==
    \A r \in BagToSet(InsertedByLast) :
        r.Table \in {TTransportLeg, TEventDate} =>
            /\ CopiesIn(r, InsertedByLast) = 1
            /\ \A q \in BagToSet(InsertedByLast) :
                   (/\ q.Table = r.Table /\ q.ParentCol = r.ParentCol
                    /\ q.ParentKey = r.ParentKey /\ q.Source = r.Source
                    /\ DedupKeyOfRow(q) = DedupKeyOfRow(r)) => q = r

\* The shipment-level leg list of the most recent document.
ShipmentLegsOfLast ==
    IF last.family = "CSL" THEN last.doc.TransportLegsShipment
    ELSE IF last.family = "AR" /\ last.doc.ShipmentFromAR # NoShipment
         THEN last.doc.ShipmentFromAR.TransportLegsShipment
    ELSE <<>>

\* The shipment the most recent document is about.
ShipmentOfLast ==
    LET job == IF last.family = "CSL" THEN last.doc.ShipmentJob
               ELSE last.doc.ShipmentFromAR.ShipmentJob
    IN  ShipmentKeyByJob(db, JobDimKeyOf(db, "ForwardingShipment", job))

\* The transport-leg rows under the shipment of the most recent document.
LegRowsOfLast ==
    LET rows == RowsOf(db.Child, TTransportLeg, ParentShipment, ShipmentOfLast)
    IN  [r \in rows |-> CopiesIn(r, db.Child)]

\* Number of rows of a bag.
RECURSIVE BagSize(_)
BagSize(b) ==
    IF DOMAIN b = {} THEN 0
    ELSE LET r == CHOOSE x \in DOMAIN b : TRUE
         IN  b[r] + BagSize([x \in DOMAIN b \ {r} |-> b[x]])

\* The same leg but for the vessel identification.
SameButVessel(a, b) ==
    [a EXCEPT !.VesselName = Absent, !.VesselLloydsIMO = Absent]
        = [b EXCEPT !.VesselName = Absent, !.VesselLloydsIMO = Absent]

\* One record names the vessel only, the other carries the registry number
\* of the same vessel.
NameAndRegistry(a, b) ==
    /\ SameButVessel(a, b)
    /\ a.VesselLloydsIMO = Absent /\ a.VesselName # Absent
    /\ b.VesselLloydsIMO # Absent
    /\ b.VesselName \in {Absent, a.VesselName}

\* The records differ in the casing of the vessel name and in nothing else.
CasingOnly(a, b) ==
    /\ SameButVessel(a, b)
    /\ a.VesselLloydsIMO = b.VesselLloydsIMO
    /\ a.VesselName # b.VesselName
    /\ Upper(_norm(a.VesselName)) = Upper(_norm(b.VesselName))

\* The first document of a warehouse lists exactly two shipment-level legs.
FirstDocumentListsTwoLegs ==
    nfiles = 1 /\ Len(ShipmentLegsOfLast) = 2

\* C13 as stated: two legs of one batch that differ only in naming the
\* vessel by name or by registry number leave exactly one row.
C13_RegistryNumberIsVesselIdentity ==
    (/\ FirstDocumentListsTwoLegs
     /\ NameAndRegistry(ShipmentLegsOfLast[1], ShipmentLegsOfLast[2]))
        => BagSize(LegRowsOfLast) = 1

\* C14 as stated: two legs of one reconciliation that differ only in the
\* casing of the vessel name leave exactly one row.
C14_VesselCasingCollapses ==
    (/\ FirstDocumentListsTwoLegs
     /\ CasingOnly(ShipmentLegsOfLast[1], ShipmentLegsOfLast[2]))
        => BagSize(LegRowsOfLast) = 1

----------------------------------------------------------------------------
\* Properties of the dimension resolution.

\* The most recent call resolved a natural key.
CallMade == call.path \notin {Absent, "empty"}

\* Write statements the most recent call issued.
WritesOfCall == call.updates + call.inserts + call.fallbacks

\* The most recent call repeats the one before it: the same table, the same
\* natural key, the same attributes.
RepeatsPrevCall ==
    /\ CallMade
    /\ prevCall.result # NoKey
    /\ prevCall.table = call.table /\ prevCall.code = call.code
    /\ prevCall.name = call.name /\ prevCall.extra = call.extra

\* The most recent call found the key cached, with a signature that differs
\* from its own in exactly one attribute.
OneAttributeChanged ==
    /\ call.path = "hit"
    /\ (call.prev[1] # call.name) # (call.prev[2] # call.extra)

\* C15 as stated: a second resolution with identical attributes issues no
\* write statement; a resolution of a cached key with exactly one attribute
\* changed issues exactly one update and no insert.
C15_AttributeCacheCorrect ==
    /\ RepeatsPrevCall => WritesOfCall = 0
    /\ OneAttributeChanged => (call.updates = 1 /\ call.inserts = 0 /\ call.fallbacks = 0)

\* C16 as stated: a resolution that misses the cache issues at most one
\* update statement and at most one insert statement.
C16_MissWritesAtMostOnce ==
    (CallMade /\ call.cached_key = NoKey) => (call.updates <= 1 /\ call.inserts <= 1)

\* C17: when the insert of the miss path is refused because the natural key
\* exists, nothing is raised to the pipeline: the caller issues its single
\* exists-then-insert-or-update statement and returns the key of the
\* existing row.
C17_InsertRaceRecovered ==
    call.refused =>
        /\ call.path = "fallback"
        /\ call.error = Absent
        /\ call.fallbacks = 1
        /\ call.result # NoKey
        /\ \E r \in dims.rows[call.table] : r.Code = call.code /\ r.Key = call.result

\* C17's case: a resolution whose insert was refused and which went through
\* the caller's fallback.
C17_Witness ==
    /\ call.refused
    /\ call.path = "fallback"
    /\ call.result # NoKey

\* C18 as stated: after any resolution that returns a key, the caches hold
\* that key and the signature just used.
C18_CachePopulatedOnEveryResolution ==
    (CallMade /\ call.result # NoKey) =>
        /\ _DIM_KEY_CACHE[<<call.table, call.code>>] = call.result
        /\ _DIM_ATTR_CACHE[<<call.table, call.code>>] = <<call.name, call.extra>>

\* C19 as stated: a natural key that is empty after normalisation makes the
\* resolution fail with InvalidKeyError.
C19_EmptyKeyFails ==
    call.path = "empty" => call.error = "InvalidKeyError"

\* C20: the surrogate key first returned for (table, natural key) is the
\* key of its row ever after, the key every later resolution returns and the
\* only key the cache ever holds for it.
C20_SurrogateKeyImmutable ==
    \A ck \in CacheKeys :
        assigned[ck] # NoKey =>
            /\ \E r \in dims.rows[ck[1]] : r.Code = ck[2]
            /\ \A r \in dims.rows[ck[1]] : r.Code = ck[2] => r.Key = assigned[ck]
            /\ _DIM_KEY_CACHE[ck] \in {NoKey, assigned[ck]}
            /\ (CallMade /\ call.table = ck[1] /\ call.code = ck[2])
                   => call.result = assigned[ck]

\* C20's case: a later resolution, after an attribute update, of a key that
\* was assigned by an earlier one.
C20_Witness ==
    /\ ncalls >= 2
    /\ call.path = "hit" /\ call.updates = 1
    /\ prevCall.path \in {"insert", "select", "fallback", "hit"}
    /\ call.result = assigned[<<call.table, call.code>>]
    /\ \E r \in dims.rows[call.table] :
           r.Code = call.code /\ r.Name = call.name /\ r.Key = call.result

\* C21: no dimension table holds two rows with the same normalised natural
\* key, whatever resolutions were made; DimJob holds one row per
\* (JobType, JobKey).
C21_NaturalKeyUnique ==
    /\ \A table \in DimTables :
           \A r1, r2 \in dims.rows[table] : r1.Code = r2.Code => r1 = r2
    /\ \A j1, j2 \in db.DimJob :
           (j1.JobType = j2.JobType /\ j1.JobKey = j2.JobKey) => j1 = j2

\* C21's case: the same natural key resolved again, in another spelling or
\* another process, with its table still holding one row for it.
C21_Witness ==
    /\ ncalls >= 2
    /\ CallMade
    /\ call.result # NoKey
    /\ assigned[<<call.table, call.code>>] = call.result
    /\ call.path \in {"hit", "select"}
    /\ Cardinality({r \in dims.rows[call.table] : r.Code = call.code}) = 1

----------------------------------------------------------------------------
\* Header upsert by business key.

ArHeaders(d) == d.FactAccountsReceivableTransaction

\* The FactShipment key the last family-B document's job had before the
\* ingestion (NoKey when the job or its shipment was unknown).
CslKeyBefore ==
    ShipmentKeyByJob(pre, JobDimKeyOf(pre, "ForwardingShipment", last.doc.ShipmentJob))

\* C22: a document without a header business key is always inserted: the
\* ingestion adds one header row, whatever rows the table held.
C22_AbsentKeyAlwaysInserts ==
    /\ (last.family = "AR" /\ last.doc.Number = "") =>
           Cardinality(ArHeaders(db)) = Cardinality(ArHeaders(pre)) + 1
    /\ (last.family = "CSL" /\ last.doc.ShipmentJob = Absent) =>
           Cardinality(db.FactShipment) = Cardinality(pre.FactShipment) + 1

\* C23: a document whose business key is already stored updates that row in
\* place: still one row for the key, with the surrogate key it had, carrying
\* the attributes of the document just ingested; no header row is added.
C23_ReingestUpdatesInPlace ==
    /\ (last.family = "AR" /\ ArHeaderKey(pre, last.doc.Number) # NoKey) =>
           /\ Cardinality(ArHeaders(db)) = Cardinality(ArHeaders(pre))
           /\ \A h \in ArHeaders(db) :
                  h.Number = last.doc.Number =>
                      /\ h.Key = ArHeaderKey(pre, last.doc.Number)
                      /\ h.LocalTotal = last.doc.LocalTotal
           /\ \E h \in ArHeaders(db) : h.Number = last.doc.Number
    /\ (last.family = "CSL" /\ CslKeyBefore # NoKey) =>
           /\ Cardinality(db.FactShipment) = Cardinality(pre.FactShipment)
           /\ \E h \in db.FactShipment :
                  /\ h.Key = CslKeyBefore
                  /\ h.ContainerCount = last.doc.ContainerCount

\* C23's case: INV-001 stored with total 100, ingested again with total 150.
C23_Witness ==
    /\ last.family = "AR"
    /\ last.doc.Number = "INV-001"
    /\ last.doc.LocalTotal = 150
    /\ \E h \in ArHeaders(pre) : h.Number = "INV-001" /\ h.LocalTotal = 100
    /\ \E h \in ArHeaders(db) : h.Number = "INV-001" /\ h.LocalTotal = 150

\* C24: a shipment header first created from a family-A document and seen
\* again in a family-A document carries, after that ingestion, the shipment
\* attributes of the document just seen.
C24_StoredEqualsLatestSight ==
    (last.family = "AR" /\ last.doc.ShipmentFromAR.ShipmentJob # Absent) =>
        \A h \in db.FactShipment :
            ( /\ h.ShipmentJobKey =
                     JobDimKeyOf(db, "ForwardingShipment", last.doc.ShipmentFromAR.ShipmentJob)
              /\ h.LoadedBy = "AR"
              /\ ~h.LoadedByCSL )
            => h.ContainerCount = last.doc.ShipmentFromAR.ContainerCount

\* C25: an ingestion deletes no DimJob row and no header row (the rows of
\* before are still there, by key), and every child row it deletes carries
\* the source of the document being ingested.
C25_DeletesOnlyOwnSourceChildRows ==
    last.family # Absent =>
        /\ pre.DimJob \subseteq db.DimJob
        /\ \A h \in ArHeaders(pre) : \E g \in ArHeaders(db) : g.Key = h.Key
        /\ \A h \in pre.FactShipment : \E g \in db.FactShipment : g.Key = h.Key
        /\ \A r \in BagToSet(pre.Child) :
              CopiesIn(r, db.Child) < CopiesIn(r, pre.Child) => r.LoadedBy = last.family

----------------------------------------------------------------------------
\* Properties of the run of main().

\* The run is over: main() returned, or the interpreter died on an
\* exception nothing caught.
Ended == pc \in {"done", "crashed"}

\* A date folder the loop over dates came to was missing.
MetMissingFolder == \E i \in 1..date_idx : ~tree[Dates(args)[i]].exists

\* C26: every run that starts eventually prints the final run summary,
\* whether it ends in success, in a failure (missing configuration
\* included) or by interruption.
C26_SummaryEventuallyPrinted == <>summary

\* C27: a run that met missing configuration, a missing date folder or a
\* file that did not complete ends with a non-zero status; a run with a
\* non-zero status met one of these or was interrupted.
C27_ExitStatusTellsOutcome ==
    Ended =>
        /\ (pc = "crashed" \/ MetMissingFolder \/ processed < cur_file) => status # 0
        /\ status # 0 =>
               (pc = "crashed" \/ MetMissingFolder \/ processed < cur_file \/ status = 130)

\* C28: the files begun so far were begun in the order (day, file name): no
\* file before one of an earlier day, nor before one of its own folder whose
\* name sorts earlier.
C28_ProcessedInOrder ==
    \A i, j \in 1..Len(log) :
        i < j => \/ log[i][1] < log[j][1]
                 \/ (log[i][1] = log[j][1] /\ NameRank(log[i][2]) < NameRank(log[j][2]))

\* C28's case: a range run that has begun files of both patterns in one
\* folder and a file of a later folder.
C28_Witness ==
    /\ args.has_range
    /\ \E i, j \in 1..Len(log) :
           log[i][1] = log[j][1] /\ FamilyOf(log[i][2]) # FamilyOf(log[j][2])
    /\ \E i, j \in 1..Len(log) : log[i][1] # log[j][1]

\* The commit interval N: the configured value, at least 1.
ConfiguredInterval == IF commit_every < 1 THEN 1 ELSE commit_every

\* A commit made something durable in this step.
Committed == durable' # durable

\* This step completes a file, the N-th since the previous commit.
CompletesIntervalFile == pc = "upsert" /\ pc' = "loop" /\ last_commit + 1 = ConfiguredInterval

\* Files with work in the open transaction.
UncommittedFiles == {w[1] : w \in txn}

\* C29 as stated: a commit is issued exactly when the files completed since
\* the previous commit reach N, and at most N files' work is uncommitted.
C29_CommitExactlyAtInterval ==
    /\ [][Committed <=> CompletesIntervalFile]_vars
    /\ [](Cardinality(UncommittedFiles) <= ConfiguredInterval)

\* C29 amended: the file loop commits exactly when the files completed
\* since the previous commit reach N; the only other commit is the one the
\* end of the run makes (normal end, failure or interruption) when at least
\* one file completed since the previous commit; at most N files' work is
\* uncommitted.
C29_CommitAtIntervalOrAtEnd ==
    /\ [][Committed <=> (CompletesIntervalFile \/ (pc' = "done" /\ last_commit > 0))]_vars
    /\ [](Cardinality(UncommittedFiles) <= ConfiguredInterval)

\* C29's case: with N = 2, the first file completed without a commit and the
\* second one's completion committed both.
C29_Witness ==
    /\ commit_every = 2
    /\ pc = "loop"
    /\ processed = 2
    /\ last_commit = 0
    /\ durable = WritesOfFile(1) \cup WritesOfFile(2)

\* Position in the log of the first completed file of that name.
FirstRecorded(name) ==
    CHOOSE i \in 1..processed :
        /\ log[i][2] = name
        /\ \A j \in 1..processed : log[j][2] = name => i <= j

\* C30: the ledger holds one row per file name, and the row of a name is the
\* one its first recording wrote, however many times the name was recorded.
C30_LedgerInsertIfAbsent ==
    /\ \A r1, r2 \in ledger : r1.FileName = r2.FileName => r1 = r2
    /\ \A i \in 1..processed :
           _parse_file_ingestion(log[i][2], log[FirstRecorded(log[i][2])][1]) \in ledger

\* C30's case: a file name recorded from one date folder and recorded again
\* from a later one.
C30_Witness ==
    /\ \E i, j \in 1..processed : log[i][2] = log[j][2] /\ log[i][1] # log[j][1]
    /\ Cardinality(ledger) < processed

----------------------------------------------------------------------------
\* Which record of a batch survives the de-duplication.

\* The first leg of a list that has the de-duplication key of leg x.
FirstLegLike(legs, x) ==
    legs[CHOOSE i \in 1..Len(legs) :
            /\ _leg_key(legs[i]) = _leg_key(x)
            /\ \A j \in 1..(i - 1) : _leg_key(legs[j]) # _leg_key(x)]

\* The first date of a list that has the de-duplication key of date x.
FirstDateLike(dates, x) ==
    dates[CHOOSE i \in 1..Len(dates) :
            /\ DateDedupKey(dates[i]) = DateDedupKey(x)
            /\ \A j \in 1..(i - 1) : DateDedupKey(dates[j]) # DateDedupKey(x)]

\* C31: of the records of one batch that share a de-duplication key, the
\* stored row is the first in input order: every shipment-level leg row,
\* every family-A header date row and every family-B shipment date row the
\* ingestion inserted carries the attributes of the first record of its key.
C31_FirstOccurrenceStored ==
    \A r \in BagToSet(InsertedByLast) :
        /\ (r.Table = TTransportLeg /\ r.ParentCol = ParentShipment)
               => r.Val = FirstLegLike(ShipmentLegsOfLast, r.Val)
        /\ (r.Table = TEventDate /\ r.ParentCol = ParentAR)
               => r.Val = FirstDateLike(last.doc.DateCollection, r.Val)
        /\ (r.Table = TEventDate /\ r.ParentCol = ParentShipment /\ last.family = "CSL")
               => r.Val = FirstDateLike(last.doc.DateCollection, r.Val)

\* C32: a replace whose delete step failed does not insert the new set on
\* top of the old one: once a family-B ingestion has inserted the
\* sub-shipments its document lists, none of the sub-shipment rows the
\* shipment held before is still there.
C32_NeverOldAndNewSet ==
    (/\ last.family = "CSL"
     /\ last.doc.SubShipments # <<>>
     /\ PreShipmentOfCsl # NoKey)
        => \A s \in pre.FactSubShipment :
               s.FactShipmentKey = PreShipmentOfCsl => s \notin db.FactSubShipment

\* C33: after a family-B ingestion every additional reference the document
\* lists under a sub-shipment is stored under that sub-shipment, whether or
\* not the sub-shipment lists containers.
C33_SubShipmentReferencesStored ==
    (last.family = "CSL" /\ ShipmentOfLastCsl # NoKey) =>
        \A sub \in Range(last.doc.SubShipments) :
            \E s \in db.FactSubShipment :
                /\ s.FactShipmentKey = ShipmentOfLastCsl
                /\ s.WayBillNumber = sub.WayBillNumber
                /\ Range(sub.AdditionalReferences) \subseteq
                       {r.Val : r \in RowsOf(db.Child, TAdditionalReference, ParentSub, s.Key)}

\* C34: after a family-A ingestion for a shipment that already exists, every
\* date of the embedded shipment whose date key also appears under one of
\* the document's sub-shipments is stored under a sub-shipment of that
\* shipment.
C34_ExcludedDateStoredUnderSubShipment ==
    (/\ last.family = "AR"
     /\ last.doc.ShipmentFromAR # NoShipment
     /\ PreShipmentOfLast # NoKey) =>
        \A i \in DOMAIN last.doc.ShipmentFromAR.DateCollection :
            LET x == last.doc.ShipmentFromAR.DateCollection[i]
            IN  DateDedupKey(x) \in SubLevelDateKeys(last.doc.ShipmentFromAR.SubShipments) =>
                    \E s \in db.FactSubShipment :
                        /\ s.FactShipmentKey = PreShipmentOfLast
                        /\ \E r \in BagToSet(db.Child) :
                               /\ r.Table = TEventDate
                               /\ r.ParentCol = ParentSub
                               /\ r.ParentKey = s.Key
                               /\ DateDedupKey(r.Val) = DateDedupKey(x)

\* C35: a resolution of an organization by its code alone (the name falls
\* back to the code) leaves a stored, non-empty company name of that code
\* as it was.
C35_CodeOnlyKeepsStoredName ==
    [][(/\ ncalls' = ncalls + 1
        /\ call'.table = "Dwh2.DimOrganization"
        /\ call'.code # ""
        /\ call'.name = call'.code) =>
           \A r \in dims.rows["Dwh2.DimOrganization"] :
               (r.Code = call'.code /\ r.Name # "" /\ r.Name # r.Code) =>
                   \A q \in dims'.rows["Dwh2.DimOrganization"] :
                       q.Code = r.Code => q.Name = r.Name]_vars

\* The header row a family-B document loaded for the job key of the last
\* family-A document's embedded shipment.
HeaderLoadedByCsl ==
    {s \in pre.FactShipment : s.Key = PreShipmentOfLast /\ s.LoadedByCSL}

\* C36: a family-A ingestion whose embedded shipment's job key already has a
\* header row loaded by a family-B document leaves every column of that row
\* unchanged.
C36_ArLeavesCslHeaderUnchanged ==
    (/\ last.family = "AR"
     /\ last.doc.ShipmentFromAR # NoShipment
     /\ PreShipmentOfLast # NoKey) =>
        \A s \in HeaderLoadedByCsl : s \in db.FactShipment

\* A family-B header with one container count met by a family-A document
\* that tells another.
C36_Witness ==
    /\ last.family = "AR"
    /\ last.doc.ShipmentFromAR # NoShipment
    /\ PreShipmentOfLast # NoKey
    /\ \E s \in HeaderLoadedByCsl :
           /\ s.ContainerCount # last.doc.ShipmentFromAR.ContainerCount
           /\ s \in db.FactShipment

C38_CachedKeyIsStoredRow ==
    \A ck \in CacheKeys :
        _DIM_KEY_CACHE[ck] # NoKey =>
            /\ \E r \in dims.rows[ck[1]] : r.Code = ck[2] /\ r.Key = _DIM_KEY_CACHE[ck]
            /\ \A r \in dims.rows[ck[1]] : r.Key = _DIM_KEY_CACHE[ck] => r.Code = ck[2]

\* Two natural keys of one table cached with their own rows' keys, the
\* last resolution being served from the cache.
C38_Witness ==
    /\ _DIM_KEY_CACHE[<<"Dwh2.DimCountry", "US">>] # NoKey
    /\ _DIM_KEY_CACHE[<<"Dwh2.DimCountry", "CO">>] # NoKey
    /\ _DIM_KEY_CACHE[<<"Dwh2.DimCountry", "US">>] # _DIM_KEY_CACHE[<<"Dwh2.DimCountry", "CO">>]
    /\ CallMade
    /\ call.path = "hit"
    /\ \A ck \in CacheKeys :
           _DIM_KEY_CACHE[ck] # NoKey =>
               \E r \in dims.rows[ck[1]] : r.Code = ck[2] /\ r.Key = _DIM_KEY_CACHE[ck]

====
